---- MODULE Spec2Model ----
(***************************************************************************)
(* A model of the BFFNT font-container codec (package bffnt_headers):      *)
(* the kerning section codec (krng.go), the container header codec and the *)
(* document aggregate (ffnt.go), and the earlier document encoder of the   *)
(* command-line program (package main).                                    *)
(*                                                                         *)
(* Byte buffers are sequences of 0..255.  A Go slice is a buffer together  *)
(* with a capacity: slicing is bounded by the capacity, indexing by the    *)
(* length, and the spare capacity of a freshly read or written buffer      *)
(* holds zero bytes.  A failed bounds check is a run-time panic, which     *)
(* aborts the program; the model records it as status "panic".             *)
(***************************************************************************)
EXTENDS Integers, Sequences, FiniteSets, TLC

(***************************************************************************)
(* Bounds of the model.                                                    *)
(***************************************************************************)
\* spare capacity (in bytes) a buffer may carry past its length
MaxSlack == 1
\* start offsets handed to KRNG.Encode at the section level are 0..MaxStart
MaxStart == 3

(***************************************************************************)
(* Fixed-width integers and big-endian fields (encoding/binary, BigEndian). *)
(***************************************************************************)
Pow16 == 2^16

\* uint16(x) for any integer x
U16(x) == ((x % Pow16) + Pow16) % Pow16

\* uint32(x) of an int x.  The model checker's integers are 32-bit, so every
\* length and 32-bit field of the model lies in 0..2^31-1, where the
\* conversion changes nothing
U32(x) == x

\* int16(u) for a uint16 u
I16(u) == IF u >= 32768 THEN u - Pow16 ELSE u

\* binaryWrite of a 16-bit value (signed or unsigned): two bytes, big-endian
PutU16(x) == << U16(x) \div 256, U16(x) % 256 >>

\* binaryWrite of a uint32: four bytes, big-endian
PutU32(x) == << (U32(x) \div 16777216) % 256, (U32(x) \div 65536) % 256,
                (U32(x) \div 256) % 256, U32(x) % 256 >>

\* the byte at 0-based position p of a buffer; spare capacity reads as zero
ByteAt(raw, p) == IF p < Len(raw) THEN raw[p + 1] ELSE 0

\* binary.BigEndian.Uint16 of the two bytes at 0-based position p
GetU16(raw, p) == ByteAt(raw, p) * 256 + ByteAt(raw, p + 1)

\* binary.BigEndian.Uint32 of the four bytes at 0-based position p
GetU32(raw, p) == GetU16(raw, p) * Pow16 + GetU16(raw, p + 2)

Zeros(n) == [i \in 1..n |-> 0]

Range(s) == {s[i] : i \in 1..Len(s)}

\* the bytes of a sequence of 16-bit words, each big-endian
WordsToBytes(ws) ==
  [i \in 1..(2 * Len(ws)) |->
     IF i % 2 = 1 THEN ws[(i + 1) \div 2] \div 256 ELSE ws[i \div 2] % 256]

\* all orders in which the keys of a set can be visited
Perms(S) ==
  {s \in [1..Cardinality(S) -> S] : \A i, j \in 1..Cardinality(S) : i # j => s[i] # s[j]}

(***************************************************************************)
(* Section constants.                                                      *)
(***************************************************************************)
\* "KRNG"
KRNG_MAGIC_HEADER == <<75, 82, 78, 71>>

KRNG_HEADER_SIZE == 8

\* strings.Index(string(raw), magic): the first 0-based position, or -1
IndexOf(raw, magic) ==
  LET Hit(p) == \A k \in 1..Len(magic) : raw[p + k] = magic[k]
  IN  IF Len(raw) < Len(magic) THEN -1
      ELSE IF Hit(0) THEN 0
      ELSE LET hits == {p \in 1..(Len(raw) - Len(magic)) : Hit(p)}
           IN  IF hits = {} THEN -1
               ELSE CHOOSE p \in hits : \A q \in hits : p <= q

(***************************************************************************)
(* KRNG.Encode (krng.go).  A kerning table is a function from first        *)
(* characters to sequences of [SecondChar, KerningValue] records; the      *)
(* empty (or nil) map is the empty function.                               *)
(***************************************************************************)
EmptyTable == << >>

\* sort.Ints over the keys in the order the map iteration delivered them
SortInts(s) ==
  [i \in 1..Len(s) |->
     CHOOSE x \in Range(s) : Cardinality({k \in 1..Len(s) : s[k] < x}) = i - 1]

\* getFirstCharsOrdered without its sort.Ints
getFirstCharsUnsorted(iter) == [i \in 1..Len(iter) |-> U16(iter[i])]

\* getFirstCharsOrdered: iter is the order of the map iteration
getFirstCharsOrdered(iter) ==
  LET orderedFirstChars == SortInts(iter)
  IN  [i \in 1..Len(iter) |-> U16(orderedFirstChars[i])]

\* secondCharDataOffset when the k-th first character is written (an int)
RECURSIVE SecondCharDataOffset(_, _, _)
SecondCharDataOffset(table, firstChars, k) ==
  IF k = 1 THEN Len(firstChars) * 4 + 2
  ELSE SecondCharDataOffset(table, firstChars, k - 1)
         + 2 + 4 * Len(table[firstChars[k - 1]])

\* the 16-bit offset written for the k-th first character
StoredOffset(table, firstChars, k) ==
  U16(SecondCharDataOffset(table, firstChars, k) \div 2)

\* the first loop: (firstChar, offset/2) per first character
FirstCharWords(table, firstChars) ==
  [i \in 1..(2 * Len(firstChars)) |->
     IF i % 2 = 1 THEN firstChars[(i + 1) \div 2]
     ELSE StoredOffset(table, firstChars, i \div 2)]

\* one first character's pair array: its count, then (second, value) pairs
PairWords(pairs) ==
  <<U16(Len(pairs))>> \o
  [i \in 1..(2 * Len(pairs)) |->
     IF i % 2 = 1 THEN U16(pairs[(i + 1) \div 2].SecondChar)
     ELSE U16(pairs[i \div 2].KerningValue)]

\* the second loop: the pair arrays in the order of firstChars
RECURSIVE PairDataWords(_, _, _)
PairDataWords(table, firstChars, k) ==
  IF k > Len(firstChars) THEN << >>
  ELSE PairWords(table[firstChars[k]]) \o PairDataWords(table, firstChars, k + 1)

\* padToNext4ByteBoundary: zero bytes up to the next multiple of 4 of the
\* absolute position startOffset + Len(data)
padToNext4ByteBoundary(data, startOffset) ==
  data \o Zeros((4 - ((startOffset + Len(data)) % 4)) % 4)

\* the data buffer of the section (everything after the 8-byte header) for
\* first characters written in the order firstChars
KRNG_Data(table, firstChars, startOffset) ==
  LET words == <<U16(Len(firstChars))>> \o FirstCharWords(table, firstChars)
                 \o PairDataWords(table, firstChars, 1)
  IN  padToNext4ByteBoundary(WordsToBytes(words), startOffset)

\* the data buffer Encode builds: firstChars := getFirstCharsOrdered(...)
KRNG_EncodeData(table, iter, startOffset) ==
  KRNG_Data(table, getFirstCharsOrdered(iter), startOffset)

\* krng.SectionSize after Encode
KRNG_EncodeSectionSize(krng, iter, startOffset) ==
  IF Cardinality(DOMAIN krng.KerningTable) = 0 THEN krng.SectionSize
  ELSE U32(KRNG_HEADER_SIZE + Len(KRNG_EncodeData(krng.KerningTable, iter, startOffset)))

\* KRNG.Encode without its early return for an empty table
KRNG_EncodeNoEarlyReturn(krng, iter, startOffset) ==
  LET krngData == KRNG_EncodeData(krng.KerningTable, iter, startOffset)
  IN  KRNG_MAGIC_HEADER \o PutU32(KRNG_HEADER_SIZE + Len(krngData)) \o krngData

\* the bytes KRNG.Encode returns
KRNG_Encode(krng, iter, startOffset) ==
  IF Cardinality(DOMAIN krng.KerningTable) = 0 THEN << >>
  ELSE LET krngData == KRNG_EncodeData(krng.KerningTable, iter, startOffset)
       IN  KRNG_MAGIC_HEADER \o PutU32(KRNG_HEADER_SIZE + Len(krngData)) \o krngData

(***************************************************************************)
(* KRNG.Decode (krng.go).  raw is the buffer, cap its capacity.  The       *)
(* result is the status of the call and the fields of the receiver.        *)
(***************************************************************************)
\* the receiver before any Decode: the zero value of the struct
FreshKRNG == [MagicHeader |-> << >>, SectionSize |-> 0, KerningTable |-> EmptyTable]

\* totalDataBytesRead after the first n entries, count(i) pairs read for entry i
\* realSecondCharOffset := secondCharOffset * 2, a uint16 product
RealSecondCharOffset(secondCharOffset) == U16(secondCharOffset * 2)

\* pairDataStart := realSecondCharOffset + 2, a uint16 sum
PairDataStart(realSecondCharOffset) == U16(realSecondCharOffset + 2)

\* pairDataEnd := realSecondCharOffset + 2 + secondCharCount*4, in uint16
PairDataEnd(realSecondCharOffset, secondCharCount) ==
  U16(realSecondCharOffset + 2 + secondCharCount * 4)

RECURSIVE TotalRead(_, _)
TotalRead(count, n) ==
  IF n = 0 THEN 2 ELSE TotalRead(count, n - 1) + 4 + 2 + 4 * count[n - 1]

KRNG_Decode(krng, raw, cap) ==
  LET headerStart == IndexOf(raw, KRNG_MAGIC_HEADER)
      headerEnd == headerStart + KRNG_HEADER_SIZE
      magic == [k \in 1..4 |-> ByteAt(raw, headerStart + k - 1)]
      sectionSize == GetU32(raw, headerStart + 4)
      dataEnd == headerStart + sectionSize
      dataLen == dataEnd - headerEnd
      dataCap == cap - headerEnd
      \* binary.BigEndian.Uint16(data[p : p+2])
      D16(p) == GetU16(raw, headerEnd + p)
      firstCharCount == D16(0)
      Entries == 0..(firstCharCount - 1)
      firstChar == [i \in Entries |-> D16(2 + 4 * i)]
      secondCharOffset == [i \in Entries |-> D16(2 + 4 * i + 2)]
      \* uint16 arithmetic: the product and the sums wrap modulo 2^16
      realSecondCharOffset ==
        [i \in Entries |-> RealSecondCharOffset(secondCharOffset[i])]
      secondCharCount == [i \in Entries |-> D16(realSecondCharOffset[i])]
      pairDataStart == [i \in Entries |-> PairDataStart(realSecondCharOffset[i])]
      pairDataEnd ==
        [i \in Entries |-> PairDataEnd(realSecondCharOffset[i], secondCharCount[i])]
      \* every slice expression of iteration i is within bounds
      EntryOK(i) ==
        /\ 2 + 4 * i + 4 <= dataCap
        /\ realSecondCharOffset[i] <= U16(realSecondCharOffset[i] + 2)
        /\ U16(realSecondCharOffset[i] + 2) <= dataCap
        /\ pairDataStart[i] <= pairDataEnd[i]
        /\ pairDataEnd[i] <= dataCap
        /\ 4 * secondCharCount[i] <= dataCap - pairDataStart[i]
      kerningPairSlice(i) ==
        [j \in 1..secondCharCount[i] |->
           [SecondChar |-> D16(pairDataStart[i] + 4 * (j - 1)),
            KerningValue |-> I16(D16(pairDataStart[i] + 4 * (j - 1) + 2))]]
      \* kerningMap[firstChar] = kerningPairSlice: a later entry overwrites
      kerningMap ==
        [c \in {firstChar[i] : i \in Entries} |->
           kerningPairSlice(CHOOSE i \in Entries :
                              /\ firstChar[i] = c
                              /\ \A k \in Entries : firstChar[k] = c => k <= i)]
      totalDataBytesRead == TotalRead(secondCharCount, firstCharCount)
      header == [krng EXCEPT !.MagicHeader = magic, !.SectionSize = sectionSize]
  IN  IF headerStart = -1 THEN [status |-> "ok", krng |-> krng]
      ELSE IF headerEnd > cap THEN [status |-> "panic", krng |-> krng]
      ELSE IF dataEnd < headerEnd \/ dataEnd > cap \/ dataCap < 2
             \/ \E i \in Entries : ~EntryOK(i)
        THEN [status |-> "panic", krng |-> header]
      ELSE IF totalDataBytesRead > dataLen
        THEN [status |-> "panic", krng |-> [header EXCEPT !.KerningTable = kerningMap]]
      ELSE [status |-> "ok", krng |-> [header EXCEPT !.KerningTable = kerningMap]]

(***************************************************************************)
(* KRNG.Kern (krng.go): r1 and r2 are runes (int32).                       *)
(***************************************************************************)
RECURSIVE KernScan(_, _, _)
KernScan(pairs, r2, j) ==
  IF j > Len(pairs) THEN 0
  ELSE IF r2 = pairs[j].SecondChar THEN pairs[j].KerningValue
  ELSE KernScan(pairs, r2, j + 1)

KRNG_Kern(krng, r1, r2) ==
  IF U16(r1) \in DOMAIN krng.KerningTable
    THEN KernScan(krng.KerningTable[U16(r1)], r2, 1)
    ELSE 0

(***************************************************************************)
(* The container header codec: FFNT.Decode and FFNT.Encode (ffnt.go).      *)
(***************************************************************************)
FFNT_HEADER_SIZE == 20

\* the slice raw[p : p+n] of a buffer, as bytes (0-based p)
Sub(raw, p, n) == [i \in 1..n |-> ByteAt(raw, p + i - 1)]

\* the zero value of the struct
FreshFFNT ==
  [MagicHeader |-> << >>, Endianness |-> 0, SectionSize |-> 0, Version |-> 0,
   TotalFileSize |-> 0, BlockReadNum |-> 0]

\* raw[0:FFNT_HEADER_SIZE] panics when the capacity is below the header size
FFNT_Decode(ffnt, raw, cap) ==
  IF cap < FFNT_HEADER_SIZE THEN [status |-> "panic", ffnt |-> ffnt]
  ELSE [status |-> "ok",
        ffnt |-> [MagicHeader |-> Sub(raw, 0, 4),
                  Endianness |-> GetU16(raw, 4),
                  SectionSize |-> GetU16(raw, 6),
                  Version |-> GetU32(raw, 8),
                  TotalFileSize |-> GetU32(raw, 12),
                  BlockReadNum |-> GetU32(raw, 16)]]

\* FFNT.Encode writing the stored total size instead of its argument
FFNT_EncodeStoredSize(ffnt, totalFileSize) ==
  ffnt.MagicHeader \o PutU16(ffnt.Endianness) \o PutU16(ffnt.SectionSize)
    \o PutU32(ffnt.Version) \o PutU32(ffnt.TotalFileSize) \o PutU32(ffnt.BlockReadNum)

FFNT_Encode(ffnt, totalFileSize) ==
  ffnt.MagicHeader \o PutU16(ffnt.Endianness) \o PutU16(ffnt.SectionSize)
    \o PutU32(ffnt.Version) \o PutU32(totalFileSize) \o PutU32(ffnt.BlockReadNum)

(***************************************************************************)
(* The sections whose codecs are not part of the three source files:       *)
(* FINF, TGLP, the CWDH chain and the CMAP chain.  Their layouts follow    *)
(* the format as the specification describes it: a 4-byte tag, a 4-byte    *)
(* section size, the fields, the payload, zero padding to a multiple of 4; *)
(* every forward offset points 8 bytes past the start of its target.       *)
(***************************************************************************)
FINF_MAGIC_HEADER == <<70, 73, 78, 70>>

TGLP_MAGIC_HEADER == <<84, 71, 76, 80>>

CWDH_MAGIC_HEADER == <<67, 87, 68, 72>>

CMAP_MAGIC_HEADER == <<67, 77, 65, 80>>

FINF_HEADER_SIZE == 32

TGLP_HEADER_SIZE == 32

CWDH_HEADER_SIZE == 16

CMAP_HEADER_SIZE == 20

\* int8(b) for a byte b, and the byte of an int8
I8(b) == IF b >= 128 THEN b - 256 ELSE b

U8(x) == ((x % 256) + 256) % 256

PadTo4(bytes) == bytes \o Zeros((4 - (Len(bytes) % 4)) % 4)

FreshFINF ==
  [MagicHeader |-> << >>, SectionSize |-> 0, FontType |-> 0, Height |-> 0, Width |-> 0,
   Ascent |-> 0, LineFeed |-> 0, AlterCharIndex |-> 0, DefaultLeftWidth |-> 0,
   DefaultGlyphWidth |-> 0, DefaultCharWidth |-> 0, Encoding |-> 0,
   TGLPOffset |-> 0, CWDHOffset |-> 0, CMAPOffset |-> 0]

\* FINF.Decode: the fixed region right after the container header
FINF_Decode(finf, raw, cap) ==
  LET at == FFNT_HEADER_SIZE
  IN  IF cap < at + FINF_HEADER_SIZE THEN [status |-> "panic", finf |-> finf]
      ELSE [status |-> "ok",
            finf |-> [MagicHeader |-> Sub(raw, at, 4),
                      SectionSize |-> GetU32(raw, at + 4),
                      FontType |-> ByteAt(raw, at + 8),
                      Height |-> ByteAt(raw, at + 9),
                      Width |-> ByteAt(raw, at + 10),
                      Ascent |-> ByteAt(raw, at + 11),
                      LineFeed |-> GetU16(raw, at + 12),
                      AlterCharIndex |-> GetU16(raw, at + 14),
                      DefaultLeftWidth |-> I8(ByteAt(raw, at + 16)),
                      DefaultGlyphWidth |-> ByteAt(raw, at + 17),
                      DefaultCharWidth |-> ByteAt(raw, at + 18),
                      Encoding |-> ByteAt(raw, at + 19),
                      TGLPOffset |-> GetU32(raw, at + 20),
                      CWDHOffset |-> GetU32(raw, at + 24),
                      CMAPOffset |-> GetU32(raw, at + 28)]]

\* FINF.Encode(tglpOffset, cwdhOffset, cmapOffset): the three offsets replace
\* the ones that were read
FINF_Encode(finf, tglpOffset, cwdhOffset, cmapOffset) ==
  finf.MagicHeader \o PutU32(finf.SectionSize)
    \o <<finf.FontType, finf.Height, finf.Width, finf.Ascent>>
    \o PutU16(finf.LineFeed) \o PutU16(finf.AlterCharIndex)
    \o <<U8(finf.DefaultLeftWidth), finf.DefaultGlyphWidth, finf.DefaultCharWidth,
         finf.Encoding>>
    \o PutU32(tglpOffset) \o PutU32(cwdhOffset) \o PutU32(cmapOffset)

FreshTGLP ==
  [MagicHeader |-> << >>, SectionSize |-> 0, CellWidth |-> 0, CellHeight |-> 0,
   NumOfSheets |-> 0, MaxCharWidth |-> 0, SheetSize |-> 0, BaselinePosition |-> 0,
   SheetFormat |-> 0, NumOfColumns |-> 0, NumOfRows |-> 0, SheetWidth |-> 0,
   SheetHeight |-> 0, SheetDataOffset |-> 0, SheetData |-> << >>]

\* TGLP.Decode: the geometry header right after FINF, then SheetSize bytes
TGLP_Decode(tglp, raw, cap) ==
  LET at == FFNT_HEADER_SIZE + FINF_HEADER_SIZE
      sheetSize == GetU32(raw, at + 12)
  IN  IF cap < at + TGLP_HEADER_SIZE \/ cap < at + TGLP_HEADER_SIZE + sheetSize
        THEN [status |-> "panic", tglp |-> tglp]
      ELSE [status |-> "ok",
            tglp |-> [MagicHeader |-> Sub(raw, at, 4),
                      SectionSize |-> GetU32(raw, at + 4),
                      CellWidth |-> ByteAt(raw, at + 8),
                      CellHeight |-> ByteAt(raw, at + 9),
                      NumOfSheets |-> ByteAt(raw, at + 10),
                      MaxCharWidth |-> ByteAt(raw, at + 11),
                      SheetSize |-> sheetSize,
                      BaselinePosition |-> GetU16(raw, at + 16),
                      SheetFormat |-> GetU16(raw, at + 18),
                      NumOfColumns |-> GetU16(raw, at + 20),
                      NumOfRows |-> GetU16(raw, at + 22),
                      SheetWidth |-> GetU16(raw, at + 24),
                      SheetHeight |-> GetU16(raw, at + 26),
                      SheetDataOffset |-> GetU32(raw, at + 28),
                      SheetData |-> Sub(raw, at + TGLP_HEADER_SIZE, sheetSize)]]

\* TGLP.Encode: the geometry header and the payload, padded
TGLP_Encode(tglp) ==
  LET body == <<tglp.CellWidth, tglp.CellHeight, tglp.NumOfSheets, tglp.MaxCharWidth>>
                \o PutU32(tglp.SheetSize) \o PutU16(tglp.BaselinePosition)
                \o PutU16(tglp.SheetFormat) \o PutU16(tglp.NumOfColumns)
                \o PutU16(tglp.NumOfRows) \o PutU16(tglp.SheetWidth)
                \o PutU16(tglp.SheetHeight) \o PutU32(tglp.SheetDataOffset)
                \o tglp.SheetData
      padded == PadTo4(body)
  IN  TGLP_MAGIC_HEADER \o PutU32(8 + Len(padded)) \o padded

\* one CWDH block at offset off (8 past its start): its glyph width triples
CWDH_Glyphs(raw, off) ==
  [i \in 1..(GetU16(raw, off + 2) - GetU16(raw, off) + 1) |->
     [LeftWidth |-> I8(ByteAt(raw, off + 8 + 3 * (i - 1))),
      GlyphWidth |-> ByteAt(raw, off + 8 + 3 * (i - 1) + 1),
      CharWidth |-> ByteAt(raw, off + 8 + 3 * (i - 1) + 2)]]

\* DecodeCWDHs(raw, firstOffset): follow the next offsets to the terminal 0
RECURSIVE DecodeCWDHs(_, _, _)
DecodeCWDHs(raw, off, fuel) ==
  IF off = 0 \/ fuel = 0 \/ off + 8 > Len(raw) THEN << >>
  ELSE << [StartIndex |-> GetU16(raw, off), EndIndex |-> GetU16(raw, off + 2),
           Glyphs |-> CWDH_Glyphs(raw, off)] >>
         \o DecodeCWDHs(raw, GetU32(raw, off + 4), fuel - 1)

\* the chain lies within the buffer
RECURSIVE CWDHsInBounds(_, _, _, _)
CWDHsInBounds(raw, cap, off, fuel) ==
  \/ off = 0
  \/ /\ fuel > 0
     /\ off >= 8
     /\ off + 8 <= cap
     /\ GetU16(raw, off + 2) + 1 >= GetU16(raw, off)
     /\ off + 8 + 3 * (GetU16(raw, off + 2) - GetU16(raw, off) + 1) <= cap
     /\ CWDHsInBounds(raw, cap, GetU32(raw, off + 4), fuel - 1)

CWDH_BlockSize(blk) == Len(PadTo4(Zeros(CWDH_HEADER_SIZE + 3 * Len(blk.Glyphs))))

\* EncodeCWDHs(blocks, startOffset), from block k on; offset is 8 past the
\* start of block k; the next offset is recomputed from the sequence order
RECURSIVE EncodeCWDHsFrom(_, _, _)
EncodeCWDHsFrom(blocks, k, offset) ==
  IF k > Len(blocks) THEN << >>
  ELSE LET blk == blocks[k]
           size == CWDH_BlockSize(blk)
           next == IF k = Len(blocks) THEN 0 ELSE offset + size
           glyphs == [i \in 1..(3 * Len(blk.Glyphs)) |->
                        LET g == blk.Glyphs[(i + 2) \div 3]
                        IN  CASE i % 3 = 1 -> U8(g.LeftWidth)
                              [] i % 3 = 2 -> g.GlyphWidth
                              [] OTHER -> g.CharWidth]
       IN  PadTo4(CWDH_MAGIC_HEADER \o PutU32(size) \o PutU16(blk.StartIndex)
                    \o PutU16(blk.EndIndex) \o PutU32(next) \o glyphs)
             \o EncodeCWDHsFrom(blocks, k + 1, offset + size)

EncodeCWDHs(blocks, startOffset) == EncodeCWDHsFrom(blocks, 1, startOffset)

\* mapping methods of a CMAP block
CMAP_DIRECT == 0

CMAP_TABLE == 1

CMAP_SCAN == 2

\* one CMAP block at offset off: its code points and their glyph indexes
CMAP_Block(raw, off) ==
  LET codeBegin == GetU16(raw, off)
      codeEnd == GetU16(raw, off + 2)
      method == GetU16(raw, off + 4)
      n == IF method = CMAP_SCAN THEN GetU16(raw, off + 12) ELSE codeEnd - codeBegin + 1
  IN  [CodeBegin |-> codeBegin, CodeEnd |-> codeEnd, MappingMethod |-> method,
       Reserved |-> GetU16(raw, off + 6),
       CharAscii |->
         [i \in 1..n |-> IF method = CMAP_SCAN THEN GetU16(raw, off + 14 + 4 * (i - 1))
                         ELSE codeBegin + i - 1],
       CharIndex |->
         [i \in 1..n |->
            CASE method = CMAP_DIRECT -> U16(GetU16(raw, off + 12) + i - 1)
              [] method = CMAP_TABLE -> GetU16(raw, off + 12 + 2 * (i - 1))
              [] OTHER -> GetU16(raw, off + 14 + 4 * (i - 1) + 2)]]

\* DecodeCMAPs(raw, firstOffset)
RECURSIVE DecodeCMAPs(_, _, _)
DecodeCMAPs(raw, off, fuel) ==
  IF off = 0 \/ fuel = 0 \/ off + 12 > Len(raw) THEN << >>
  ELSE <<CMAP_Block(raw, off)>> \o DecodeCMAPs(raw, GetU32(raw, off + 8), fuel - 1)

CMAP_PayloadSize(method, n) ==
  CASE method = CMAP_DIRECT -> 2
    [] method = CMAP_TABLE -> 2 * n
    [] OTHER -> 2 + 4 * n

RECURSIVE CMAPsInBounds(_, _, _, _)
CMAPsInBounds(raw, cap, off, fuel) ==
  \/ off = 0
  \/ /\ fuel > 0
     /\ off >= 8
     /\ off + 14 <= cap
     /\ GetU16(raw, off + 4) \in {CMAP_DIRECT, CMAP_TABLE, CMAP_SCAN}
     /\ GetU16(raw, off + 2) + 1 >= GetU16(raw, off)
     /\ off + 12 + CMAP_PayloadSize(GetU16(raw, off + 4),
                                    Len(CMAP_Block(raw, off).CharAscii)) <= cap
     /\ CMAPsInBounds(raw, cap, GetU32(raw, off + 8), fuel - 1)

CMAP_Payload(blk) ==
  CASE blk.MappingMethod = CMAP_DIRECT ->
         PutU16(IF Len(blk.CharIndex) = 0 THEN 0 ELSE blk.CharIndex[1])
    [] blk.MappingMethod = CMAP_TABLE ->
         [i \in 1..(2 * Len(blk.CharIndex)) |->
            IF i % 2 = 1 THEN blk.CharIndex[(i + 1) \div 2] \div 256
            ELSE blk.CharIndex[i \div 2] % 256]
    [] OTHER ->
         PutU16(Len(blk.CharAscii)) \o
         WordsToBytes([i \in 1..(2 * Len(blk.CharAscii)) |->
                         IF i % 2 = 1 THEN blk.CharAscii[(i + 1) \div 2]
                         ELSE blk.CharIndex[i \div 2]])

CMAP_BlockSize(blk) == Len(PadTo4(Zeros(CMAP_HEADER_SIZE) \o CMAP_Payload(blk)))

\* EncodeCMAPs(blocks, startOffset), from block k on
RECURSIVE EncodeCMAPsFrom(_, _, _)
EncodeCMAPsFrom(blocks, k, offset) ==
  IF k > Len(blocks) THEN << >>
  ELSE LET blk == blocks[k]
           size == CMAP_BlockSize(blk)
           next == IF k = Len(blocks) THEN 0 ELSE offset + size
       IN  PadTo4(CMAP_MAGIC_HEADER \o PutU32(size) \o PutU16(blk.CodeBegin)
                    \o PutU16(blk.CodeEnd) \o PutU16(blk.MappingMethod)
                    \o PutU16(blk.Reserved) \o PutU32(next) \o CMAP_Payload(blk))
             \o EncodeCMAPsFrom(blocks, k + 1, offset + size)

EncodeCMAPs(blocks, startOffset) == EncodeCMAPsFrom(blocks, 1, startOffset)

(***************************************************************************)
(* The document aggregate BFFNT (ffnt.go).                                 *)
(***************************************************************************)
NoIndexMap == << >>

FreshBFFNT ==
  [FFNT |-> FreshFFNT, FINF |-> FreshFINF, TGLP |-> FreshTGLP, CWDHs |-> << >>,
   CMAPs |-> << >>, KRNG |-> FreshKRNG, CWDHIndexMap |-> NoIndexMap]

\* the (CharAscii, CharIndex) pairs of the chain whose index is not 65535, in
\* chain order: pairSlice before it is sorted
RECURSIVE ValidPairs(_, _)
ValidPairs(cmaps, k) ==
  IF k > Len(cmaps) THEN << >>
  ELSE SelectSeq([j \in 1..Len(cmaps[k].CharAscii) |->
                    [CharAscii |-> cmaps[k].CharAscii[j],
                     CharIndex |-> cmaps[k].CharIndex[j]]],
                 LAMBDA q : q.CharIndex # 65535)
         \o ValidPairs(cmaps, k + 1)

\* BFFNT.GlyphIndexes without its sort.Slice
GlyphIndexesUnsorted(cmaps) == {ValidPairs(cmaps, 1)}

\* BFFNT.GlyphIndexes: sort.Slice by CharIndex is not a stable sort, so every
\* arrangement of pairSlice that is ordered by CharIndex is a possible result
GlyphIndexes(cmaps) ==
  LET pairSlice == ValidPairs(cmaps, 1)
      n == Len(pairSlice)
  IN  { [i \in 1..n |-> pairSlice[perm[i]]] :
          perm \in {q \in Perms(1..n) :
                      \A i \in 1..(n - 1) :
                        pairSlice[q[i]].CharIndex <= pairSlice[q[i + 1]].CharIndex} }

\* b.CWDHIndexMap[rune(glyph.CharAscii)] = i over the 0-based positions of a
\* GlyphIndexes result; a later position overwrites an earlier one
IndexMapOf(glyphs) ==
  [c \in {glyphs[i].CharAscii : i \in 1..Len(glyphs)} |->
     (CHOOSE i \in 1..Len(glyphs) :
        /\ glyphs[i].CharAscii = c
        /\ \A k \in 1..Len(glyphs) : glyphs[k].CharAscii = c => k <= i) - 1]

\* BFFNT.Decode up to CWDHIndexMap: the sections in the order they are decoded;
\* a panic leaves the sections decoded before it
BFFNT_DecodeSections(b, raw, cap) ==
  LET ffntR == FFNT_Decode(b.FFNT, raw, cap)
      finfR == FINF_Decode(b.FINF, raw, cap)
      tglpR == TGLP_Decode(b.TGLP, raw, cap)
      fuel == Len(raw) \div 16 + 1
      cwdhOK == CWDHsInBounds(raw, cap, finfR.finf.CWDHOffset, fuel)
      cmapOK == CMAPsInBounds(raw, cap, finfR.finf.CMAPOffset, fuel)
      krngR == KRNG_Decode(b.KRNG, raw, cap)
      b1 == [b EXCEPT !.FFNT = ffntR.ffnt]
      b2 == [b1 EXCEPT !.FINF = finfR.finf]
      b3 == [b2 EXCEPT !.TGLP = tglpR.tglp]
      b4 == [b3 EXCEPT !.CWDHs = DecodeCWDHs(raw, finfR.finf.CWDHOffset, fuel)]
      b5 == [b4 EXCEPT !.CMAPs = DecodeCMAPs(raw, finfR.finf.CMAPOffset, fuel)]
      b6 == [b5 EXCEPT !.KRNG = krngR.krng]
  IN  CASE ffntR.status # "ok" -> [status |-> "panic", b |-> b1]
        [] finfR.status # "ok" -> [status |-> "panic", b |-> b2]
        [] tglpR.status # "ok" -> [status |-> "panic", b |-> b3]
        [] ~cwdhOK -> [status |-> "panic", b |-> b3]
        [] ~cmapOK -> [status |-> "panic", b |-> b4]
        [] krngR.status # "ok" -> [status |-> "panic", b |-> b6]
        [] OTHER -> [status |-> "ok", b |-> b6]

(***************************************************************************)
(* BFFNT.Encode (ffnt.go): the offsets and the file size.  parts holds the *)
(* sections encoded so far.                                                *)
(***************************************************************************)
LibTglpOffsetNoSkip == FFNT_HEADER_SIZE + FINF_HEADER_SIZE

LibTglpOffset == FFNT_HEADER_SIZE + FINF_HEADER_SIZE + 8

LibCwdhOffset(parts) == LibTglpOffset + Len(parts.TGLP)

LibCmapOffset(parts) == LibCwdhOffset(parts) + Len(parts.CWDH)

LibKrngOffset(parts) == LibCmapOffset(parts) + Len(parts.CMAP)

LibFileSize(parts) ==
  U32(FFNT_HEADER_SIZE + Len(parts.FINF) + Len(parts.TGLP) + Len(parts.CWDH)
        + Len(parts.CMAP) + Len(parts.KRNG))

\* the order in which BFFNT.Encode of package bffnt_headers encodes
LibEncodeOrder == <<"TGLP", "CWDH", "CMAP", "FINF", "KRNG", "FFNT">>

\* one section of BFFNT.Encode; iter is the order of the kerning map iteration
LibEncodeSection(sec, b, parts, iter) ==
  CASE sec = "TGLP" -> TGLP_Encode(b.TGLP)
    [] sec = "CWDH" -> EncodeCWDHs(b.CWDHs, LibCwdhOffset(parts))
    [] sec = "CMAP" -> EncodeCMAPs(b.CMAPs, LibCmapOffset(parts))
    [] sec = "FINF" ->
         FINF_Encode(b.FINF, LibTglpOffset, LibCwdhOffset(parts), LibCmapOffset(parts))
    [] sec = "KRNG" -> KRNG_Encode(b.KRNG, iter, LibKrngOffset(parts))
    [] OTHER -> FFNT_Encode(b.FFNT, LibFileSize(parts))

(***************************************************************************)
(* BFFNT.Encode of package main (the command-line program).  Its container *)
(* header type is CFNT, encoded first and without a size argument; the     *)
(* model keeps the name FFNT for that section.  Its KRNG.Encode is handed  *)
(* the file bytes; the model takes the section the present Encode builds.  *)
(***************************************************************************)
MainTglpOffset == FFNT_HEADER_SIZE + FINF_HEADER_SIZE

MainCwdhOffset(parts) == MainTglpOffset + Len(parts.TGLP)

MainCmapOffset(parts) == MainCwdhOffset(parts) + Len(parts.CWDH)

MainEncodeOrder == <<"FFNT", "TGLP", "CWDH", "CMAP", "KRNG", "FINF">>

MainEncodeSection(sec, b, parts, iter) ==
  CASE sec = "FFNT" -> FFNT_Encode(b.FFNT, b.FFNT.TotalFileSize)
    [] sec = "TGLP" -> TGLP_Encode(b.TGLP)
    [] sec = "CWDH" -> EncodeCWDHs(b.CWDHs, MainCwdhOffset(parts))
    [] sec = "CMAP" -> EncodeCMAPs(b.CMAPs, MainCmapOffset(parts))
    [] sec = "KRNG" -> KRNG_Encode(b.KRNG, iter, MainCmapOffset(parts) + Len(parts.CMAP))
    [] OTHER ->
         FINF_Encode(b.FINF, MainTglpOffset + 8, MainCwdhOffset(parts) + 8,
                     MainCmapOffset(parts) + 8)

EncodeOrder(variant) == IF variant = "lib" THEN LibEncodeOrder ELSE MainEncodeOrder

EncodeSection(variant, sec, b, parts, iter) ==
  IF variant = "lib" THEN LibEncodeSection(sec, b, parts, iter)
  ELSE MainEncodeSection(sec, b, parts, iter)

\* res: header, font info, page, width chain, map chain, kerning
Concatenate(parts) ==
  parts.FFNT \o parts.FINF \o parts.TGLP \o parts.CWDH \o parts.CMAP \o parts.KRNG

NoParts ==
  [FFNT |-> << >>, FINF |-> << >>, TGLP |-> << >>, CWDH |-> << >>, CMAP |-> << >>,
   KRNG |-> << >>]

(***************************************************************************)
(* BFFNT.Upscale (ffnt.go) and KRNG.Upscale (krng.go).                     *)
(***************************************************************************)
\* what int16(f) may give for a float64 f outside the int16 range: the Go
\* specification leaves the result to the implementation; builds truncate the
\* integer to 16 bits or saturate it
Int16Conversions == {"wrap", "saturate"}

\* int16(f) of a float64 f with an integral value
Int16OfFloat(x, conv) ==
  CASE x \in -32768..32767 -> x
    [] conv = "wrap" -> I16(U16(x))
    [] x > 32767 -> 32767
    [] OTHER -> -32768

\* math.Ceil(float64(v) * scale) for an int16 v and a whole factor: the
\* product is a whole number that float64 holds exactly, its ceiling is itself
CeilScaled(v, scale) == v * scale

\* KRNG.Upscale: kPairs[i].KerningValue = int16(math.Ceil(float64(v) * scale))
KRNG_Upscale(krng, scale, conv) ==
  [krng EXCEPT !.KerningTable =
     [c \in DOMAIN krng.KerningTable |->
        [i \in 1..Len(krng.KerningTable[c]) |->
           [krng.KerningTable[c][i] EXCEPT
              !.KerningValue =
                 Int16OfFloat(CeilScaled(krng.KerningTable[c][i].KerningValue, scale), conv)]]]]

\* FINF.Upscale: the metrics times the factor
FINF_Upscale(finf, scale) ==
  [finf EXCEPT !.Height = U8(finf.Height * scale),
               !.Width = U8(finf.Width * scale),
               !.Ascent = U8(finf.Ascent * scale),
               !.LineFeed = U16(finf.LineFeed * scale),
               !.DefaultLeftWidth = I8(U8(finf.DefaultLeftWidth * scale)),
               !.DefaultGlyphWidth = U8(finf.DefaultGlyphWidth * scale),
               !.DefaultCharWidth = U8(finf.DefaultCharWidth * scale)]

\* TGLP.Upscale: the page geometry times the factor
TGLP_Upscale(tglp, scale) ==
  [tglp EXCEPT !.CellWidth = U8(tglp.CellWidth * scale),
               !.CellHeight = U8(tglp.CellHeight * scale),
               !.MaxCharWidth = U8(tglp.MaxCharWidth * scale),
               !.BaselinePosition = U16(tglp.BaselinePosition * scale),
               !.SheetWidth = U16(tglp.SheetWidth * scale),
               !.SheetHeight = U16(tglp.SheetHeight * scale)]

\* a scaled width of the glyph does not fit its unsigned byte
WidthOverflows(g, scale) == g.GlyphWidth * scale > 255 \/ g.CharWidth * scale > 255

BlockOverflows(cwdh, scale) ==
  \E i \in 1..Len(cwdh.Glyphs) : WidthOverflows(cwdh.Glyphs[i], scale)

\* what CWDH.Upscale may do with a block that has a width past 255; its code
\* is not in the source files, and BFFNT.Upscale uses no result of the call:
\* it stores the truncated bytes, it reports the range error and leaves the
\* block as it is, or it panics
OverflowModes == {"wrap", "error", "panic"}

CWDH_Upscale(cwdh, scale, mode) ==
  IF BlockOverflows(cwdh, scale) /\ mode # "wrap" THEN cwdh
  ELSE [cwdh EXCEPT !.Glyphs =
          [i \in 1..Len(cwdh.Glyphs) |->
             [LeftWidth |-> I8(U8(cwdh.Glyphs[i].LeftWidth * scale)),
              GlyphWidth |-> U8(cwdh.Glyphs[i].GlyphWidth * scale),
              CharWidth |-> U8(cwdh.Glyphs[i].CharWidth * scale)]]]

\* the first block (1-based) on which CWDH.Upscale panics, or 0
PanicBlock(cwdhs, scale, mode) ==
  IF mode = "panic" /\ \E i \in 1..Len(cwdhs) : BlockOverflows(cwdhs[i], scale)
    THEN CHOOSE i \in 1..Len(cwdhs) :
           /\ BlockOverflows(cwdhs[i], scale)
           /\ \A k \in 1..(i - 1) : ~BlockOverflows(cwdhs[k], scale)
    ELSE 0

\* BFFNT.Upscale: FINF, TGLP, every CWDH in turn, then KRNG; no result
BFFNT_Upscale(b, scale, mode, conv) ==
  LET stop == PanicBlock(b.CWDHs, scale, mode)
      scaled == [b EXCEPT !.FINF = FINF_Upscale(b.FINF, scale),
                          !.TGLP = TGLP_Upscale(b.TGLP, scale),
                          !.CWDHs = [i \in 1..Len(b.CWDHs) |->
                                       IF stop # 0 /\ i >= stop THEN b.CWDHs[i]
                                       ELSE CWDH_Upscale(b.CWDHs[i], scale, mode)]]
  IN  IF stop # 0 THEN [status |-> "panic", b |-> scaled]
      ELSE [status |-> "returned",
            b |-> [scaled EXCEPT !.KRNG = KRNG_Upscale(b.KRNG, scale, conv)]]

(***************************************************************************)
(* The inputs of the section-level runs.                                   *)
(***************************************************************************)
KP(c, v) == [SecondChar |-> c, KerningValue |-> v]

FirstChars == {65, 66, 300}

PairSeqs == { << >>, <<KP(66, -2)>>, <<KP(512, 3), KP(66, -2)>>, <<KP(66, -2), KP(66, 3)>> }

SmallTables == UNION {[S -> PairSeqs] : S \in SUBSET FirstChars}

\* n generated pairs
GenPairs(n) == [i \in 1..n |-> KP(U16(i), I16(U16(7 * i)))]

\* the smallest table whose second pair array starts at data byte 2^16:
\* 2 + 2*4 bytes of first characters, then 2 + 4n bytes for 'A'
BigTable64K == (65 :> GenPairs((Pow16 - 12) \div 4)) @@ (66 :> GenPairs(2))

\* the smallest table whose second pair array starts past data byte 2^17
BigTable128K == (65 :> GenPairs((2 * Pow16 - 12) \div 4 + 1)) @@ (66 :> GenPairs(2))

BigTables == {BigTable64K, BigTable128K}

\* the runes handed to Kern: 16-bit characters and one beyond the 16-bit range
Runes == {65, 66, 512, Pow16 + 65}

\* what may precede the section: nothing, or bytes that nearly spell the tag
Prefixes == { << >>, <<75, 82, 78, 0, 71, 7>> }

NoBytes == << >>

NoKern == [a |-> -1, b |-> -1, value |-> 0]

VARIABLES
  krng,      \* the KRNG that is encoded
  kStart,    \* the startOffset handed to Encode
  kSlack,    \* spare capacity of the buffer that is decoded
  kPrefix,   \* bytes that precede the encoded section in the decoded buffer
  kIter,     \* the order in which the first Encode iterated the map
  kIter2,    \* the order in which the second Encode iterated the map
  kRaw,      \* the bytes of the first Encode
  kRaw2,     \* the bytes of the second Encode
  dec,       \* the KRNG that decodes kRaw
  decStatus, \* "fresh", "ok" or "panic"
  kern,      \* the last Kern lookup on dec: its arguments and result
  kpc        \* position of the section-level run

kvars == <<krng, kStart, kSlack, kPrefix, kIter, kIter2, kRaw, kRaw2, dec, decStatus, kern, kpc>>

VARIABLES
  variant,   \* "lib": package bffnt_headers (ffnt.go); "main": package main
  file,      \* how the input file was built
  bffntRaw,  \* the bytes read from the input file
  slack,     \* spare capacity of bffntRaw
  bffnt,         \* the BFFNT document
  bffntBefore,   \* the document as it was when Upscale was called
  scale,     \* the factor handed to Upscale, 0 before the call
  upStatus,  \* "none", "returned" or "panic": how Upscale ended
  encDone,   \* the sections Encode has encoded so far, in order
  parts,     \* their bytes
  out,       \* the buffer Encode returned
  pc         \* position of the document-level run

dvars == <<variant, file, bffntRaw, slack, bffnt, bffntBefore, scale, upStatus, encDone, parts, out, pc>>

vars == <<kvars, dvars>>

NoFile == [payload |-> << >>, cwdhs |-> << >>, cmaps |-> << >>,
           kern |-> [present |-> FALSE, table |-> EmptyTable, order |-> << >>],
           stale |-> FALSE, keep |-> "all", magic |-> << >>]

\* no document-level run
DIdle ==
  /\ variant = "lib" /\ file = NoFile /\ bffntRaw = NoBytes /\ slack = 0
  /\ bffnt = FreshBFFNT /\ bffntBefore = FreshBFFNT /\ scale = 0 /\ upStatus = "none"
  /\ encDone = << >> /\ parts = NoParts /\ out = NoBytes /\ pc = "idle"

\* no section-level run
KIdle ==
  /\ krng = FreshKRNG /\ kStart = 0 /\ kSlack = 0 /\ kPrefix = << >>
  /\ kIter = << >> /\ kIter2 = << >> /\ kRaw = NoBytes /\ kRaw2 = NoBytes
  /\ dec = FreshKRNG /\ decStatus = "fresh" /\ kern = NoKern /\ kpc = "idle"

KInit ==
  /\ DIdle
  /\ \/ /\ \E t \in SmallTables :
              krng = [MagicHeader |-> << >>, SectionSize |-> 0, KerningTable |-> t]
        /\ kStart \in 0..MaxStart
        /\ kSlack \in 0..MaxSlack
        /\ kPrefix \in Prefixes
     \/ /\ \E t \in BigTables :
              krng = [MagicHeader |-> << >>, SectionSize |-> 0, KerningTable |-> t]
        /\ kStart = 0 /\ kSlack = 0 /\ kPrefix = << >>
  /\ kIter = << >> /\ kIter2 = << >>
  /\ kRaw = NoBytes /\ kRaw2 = NoBytes
  /\ dec = FreshKRNG
  /\ decStatus = "fresh"
  /\ kern = NoKern
  /\ kpc = "start"

\* the buffer handed to Decode: the encoded section after kPrefix
DecodedBuffer == kPrefix \o kRaw

\* raw := krng.Encode(startOffset)
KrngEncode ==
  /\ kpc = "start"
  /\ \E iter \in Perms(DOMAIN krng.KerningTable) :
       /\ kIter' = iter
       /\ kRaw' = KRNG_Encode(krng, iter, kStart)
       /\ krng' = [krng EXCEPT !.SectionSize = KRNG_EncodeSectionSize(krng, iter, kStart)]
  /\ kpc' = "encoded"
  /\ UNCHANGED <<kStart, kSlack, kPrefix, kIter2, kRaw2, dec, decStatus, kern>>
  /\ UNCHANGED dvars

\* a second krng.Encode(startOffset) of the same table
KrngEncodeAgain ==
  /\ kpc = "encoded"
  /\ \E iter \in Perms(DOMAIN krng.KerningTable) :
       /\ kIter2' = iter
       /\ kRaw2' = KRNG_Encode(krng, iter, kStart)
       /\ krng' = [krng EXCEPT !.SectionSize = KRNG_EncodeSectionSize(krng, iter, kStart)]
  /\ kpc' = "encoded2"
  /\ UNCHANGED <<kStart, kSlack, kPrefix, kIter, kRaw, dec, decStatus, kern>>
  /\ UNCHANGED dvars

\* dec.Decode(raw) on a fresh KRNG
KrngDecode ==
  /\ kpc = "encoded"
  /\ LET r == KRNG_Decode(dec, DecodedBuffer, Len(DecodedBuffer) + kSlack)
     IN  dec' = r.krng /\ decStatus' = r.status
  /\ kpc' = "decoded"
  /\ UNCHANGED <<krng, kStart, kSlack, kPrefix, kIter, kIter2, kRaw, kRaw2, kern>>
  /\ UNCHANGED dvars

\* dec.Kern(a, b) after a Decode that returned
KrngKern ==
  /\ kpc = "decoded"
  /\ decStatus = "ok"
  /\ \E a \in Runes, b \in Runes :
       kern' = [a |-> a, b |-> b, value |-> KRNG_Kern(dec, a, b)]
  /\ kpc' = "kerned"
  /\ UNCHANGED <<krng, kStart, kSlack, kPrefix, kIter, kIter2, kRaw, kRaw2, dec, decStatus>>
  /\ UNCHANGED dvars

KNext == KrngEncode \/ KrngEncodeAgain \/ KrngDecode \/ KrngKern

SpecKrng == KInit /\ [][KNext]_vars

(***************************************************************************)
(* Properties of the kerning section codec, checked under SpecKrng.        *)
(***************************************************************************)
KDecoded == kpc \in {"decoded", "kerned"}

KEncoded == kpc # "start"

NonEmptyTable == DOMAIN krng.KerningTable # {}

\* C4: kerning round trip.  For every non-empty kerning table and every start
\* offset, Decode of the bytes Encode returned completes and yields a table
\* with the same first characters, each with the same pairs in the same order.
C4_KerningRoundTrip ==
  (KDecoded /\ NonEmptyTable /\ kPrefix = << >>) =>
     /\ decStatus = "ok"
     /\ dec.KerningTable = krng.KerningTable

\* the value of the first pair of `pairs` whose second character is b
FirstMatchValue(pairs, b) ==
  LET hits == {j \in 1..Len(pairs) : pairs[j].SecondChar = b}
  IN  pairs[CHOOSE j \in hits : \A k \in hits : j <= k].KerningValue

\* C6: Kern(a, b) is 0 whenever a has no entry in the table or a's pairs hold
\* no pair with second character b (also for an empty table); otherwise it is
\* the kerning value of the first pair of a whose second character is b.
C6_KernAbsentIsZero ==
  kpc = "kerned" =>
    LET T == dec.KerningTable
    IN  IF kern.a \in DOMAIN T
             /\ \E j \in 1..Len(T[kern.a]) : T[kern.a][j].SecondChar = kern.b
          THEN kern.value = FirstMatchValue(T[kern.a], kern.b)
          ELSE kern.value = 0

\* the first character of the k-th entry of an encoded section
EmittedFirstChar(raw, k) == GetU16(raw, KRNG_HEADER_SIZE + 2 + 4 * (k - 1))

\* the 16-bit offset stored with the k-th entry of an encoded section
EmittedOffset(raw, k) == GetU16(raw, KRNG_HEADER_SIZE + 2 + 4 * (k - 1) + 2)

\* 2 + 4*n plus 2 + 4*pairCount for every first character emitted before the
\* k-th: where the k-th pair-count field lies, counted from the end of the
\* section header
RECURSIVE CountFieldPos(_, _, _, _)
CountFieldPos(raw, table, n, k) ==
  IF k = 1 THEN 2 + 4 * n
  ELSE CountFieldPos(raw, table, n, k - 1)
         + 2 + 4 * Len(table[EmittedFirstChar(raw, k - 1)])

\* C8: in the bytes Encode returns for a non-empty table, twice the stored
\* 16-bit offset of every first-character entry is the byte position (from the
\* end of the 8-byte header) of that first character's pair-count field.
C8_HalvedOffsets ==
  (KEncoded /\ NonEmptyTable) =>
    LET n == Cardinality(DOMAIN krng.KerningTable)
    IN  \A k \in 1..n :
          2 * EmittedOffset(kRaw, k) = CountFieldPos(kRaw, krng.KerningTable, n, k)

\* the pair array found at data position p holds exactly `pairs`
PairArrayAt(raw, p, pairs) ==
  /\ GetU16(raw, KRNG_HEADER_SIZE + p) = Len(pairs)
  /\ \A j \in 1..Len(pairs) :
       /\ GetU16(raw, KRNG_HEADER_SIZE + p + 2 + 4 * (j - 1)) = pairs[j].SecondChar
       /\ I16(GetU16(raw, KRNG_HEADER_SIZE + p + 4 + 4 * (j - 1))) = pairs[j].KerningValue

\* C9: Encode writes the first-character entries, and the pair arrays after
\* them, in strictly ascending order of first character whatever the order of
\* the map iteration, and two encodes of one table at one start offset return
\* the same bytes.
C9_AscendingAndDeterministic ==
  /\ (KEncoded /\ NonEmptyTable) =>
       LET n == Cardinality(DOMAIN krng.KerningTable)
       IN  /\ GetU16(kRaw, KRNG_HEADER_SIZE) = n
           /\ \A k \in 1..n : EmittedFirstChar(kRaw, k) \in DOMAIN krng.KerningTable
           /\ \A k \in 1..(n - 1) : EmittedFirstChar(kRaw, k) < EmittedFirstChar(kRaw, k + 1)
           /\ \A k \in 1..n :
                PairArrayAt(kRaw, CountFieldPos(kRaw, krng.KerningTable, n, k),
                            krng.KerningTable[EmittedFirstChar(kRaw, k)])
  /\ kpc = "encoded2" => kRaw2 = kRaw

\* two encodes of a table of three first characters whose map iterations ran
\* in different orders, neither of them ascending
C9_Witness ==
  /\ kpc = "encoded2"
  /\ Len(kIter) = 3
  /\ kIter # kIter2
  /\ kIter[1] > kIter[2]
  /\ kIter2[2] > kIter2[3]
  /\ Len(kRaw) > 0

\* C10: Decode of a buffer without the KRNG tag completes and leaves the
\* kerning table empty, and Encode of an empty table returns no bytes at every
\* start offset.
C10_KerningLess ==
  /\ (KDecoded /\ IndexOf(DecodedBuffer, KRNG_MAGIC_HEADER) = -1) =>
       /\ decStatus = "ok"
       /\ dec.KerningTable = EmptyTable
       /\ dec = FreshKRNG
  /\ (KEncoded /\ ~NonEmptyTable) => kRaw = << >> /\ (kpc = "encoded2" => kRaw2 = << >>)

\* a non-empty buffer without the tag was decoded, after an empty table was
\* encoded at an odd start offset
C10_Witness ==
  /\ kpc = "decoded"
  /\ ~NonEmptyTable
  /\ kStart = 3
  /\ Len(DecodedBuffer) > 0
  /\ IndexOf(DecodedBuffer, KRNG_MAGIC_HEADER) = -1
  /\ decStatus = "ok"

(***************************************************************************)
(* The input files of the document-level runs.                             *)
(***************************************************************************)
MaxScale == 3

G(l, g, c) == [LeftWidth |-> l, GlyphWidth |-> g, CharWidth |-> c]

\* sheet data: plain bytes, bytes that need padding, and bytes that spell a
\* kerning section (the tag, size 16, one first character without pairs whose
\* stored offset is 0x8003)
FilePayloads ==
  { <<1, 2, 3, 4>>, <<9, 9>>,
    <<75, 82, 78, 71, 0, 0, 0, 16, 0, 1, 0, 65, 128, 3, 0, 0, 0, 0, 0, 0>> }

\* width chains: widths that fit under every factor, a width of 100, and a
\* second block with a width of 128
FileCWDHs ==
  { << [StartIndex |-> 0, EndIndex |-> 1, Glyphs |-> <<G(-1, 10, 12), G(2, 20, 24)>>] >>,
    << [StartIndex |-> 0, EndIndex |-> 1, Glyphs |-> <<G(0, 100, 90), G(1, 5, 6)>>] >>,
    << [StartIndex |-> 0, EndIndex |-> 0, Glyphs |-> <<G(-1, 10, 12)>>],
       [StartIndex |-> 1, EndIndex |-> 2, Glyphs |-> <<G(2, 128, 130), G(0, 7, 8)>>] >> }

CMapDirect(from, to, base) ==
  [CodeBegin |-> from, CodeEnd |-> to, MappingMethod |-> CMAP_DIRECT, Reserved |-> 0,
   CharAscii |-> [i \in 1..(to - from + 1) |-> from + i - 1],
   CharIndex |-> [i \in 1..(to - from + 1) |-> base + i - 1]]

CMapTable(from, idx) ==
  [CodeBegin |-> from, CodeEnd |-> from + Len(idx) - 1, MappingMethod |-> CMAP_TABLE,
   Reserved |-> 0, CharAscii |-> [i \in 1..Len(idx) |-> from + i - 1], CharIndex |-> idx]

CMapScan(chars, idx) ==
  [CodeBegin |-> 0, CodeEnd |-> 65535, MappingMethod |-> CMAP_SCAN, Reserved |-> 0,
   CharAscii |-> chars, CharIndex |-> idx]

FileCMAPs ==
  { <<CMapDirect(65, 66, 0)>>,
    <<CMapTable(65, <<0, 65535, 1>>)>>,
    <<CMapTable(65, <<2, 65535, 0>>)>>,
    <<CMapScan(<<66, 65>>, <<1, 0>>)>>,
    <<CMapDirect(65, 65, 0), CMapScan(<<97, 98>>, <<1, 1>>)>> }

\* the kerning section of the file: none, one without first characters, one
\* written in ascending order, one written in descending order, and one whose
\* kerning values doubled pass the int16 range
FileKerning ==
  { [present |-> FALSE, table |-> EmptyTable, order |-> << >>],
    [present |-> TRUE, table |-> EmptyTable, order |-> << >>],
    [present |-> TRUE, table |-> (65 :> <<KP(66, -2)>>), order |-> <<65>>],
    [present |-> TRUE,
     table |-> (65 :> <<KP(66, -2), KP(512, 3)>>) @@ (300 :> << >>),
     order |-> <<300, 65>>],
    [present |-> TRUE, table |-> (65 :> <<KP(66, 16384), KP(67, -16385)>>),
     order |-> <<65>>] }

FileKeeps == {"all", "cut", "head"}

\* the bytes a "head" file keeps: one less than the container header
HeadLen == FFNT_HEADER_SIZE - 1

\* "FFNT", "CFNU" and "ffnt": the tags the FFNT struct names for its header
FFNT_MAGIC_HEADERS == { <<70, 70, 78, 84>>, <<67, 70, 78, 85>>, <<102, 102, 110, 116>> }

\* the first four bytes of the file: "FFNT", or "XXXX", which is no tag
FileMagics == { <<70, 70, 78, 84>>, <<88, 88, 88, 88>> }

FileSpecs ==
  [payload : FilePayloads, cwdhs : FileCWDHs, cmaps : FileCMAPs, kern : FileKerning,
   stale : BOOLEAN, keep : FileKeeps, magic : FileMagics]

\* the bytes of the file f describes: header, FINF, TGLP, the width chain, the
\* map chain and the kerning section, every forward offset 8 past its target
BuildFile(f) ==
  LET tglp == [FreshTGLP EXCEPT !.MagicHeader = TGLP_MAGIC_HEADER, !.CellWidth = 16,
                 !.CellHeight = 20, !.NumOfSheets = 1, !.MaxCharWidth = 18,
                 !.SheetSize = Len(f.payload), !.BaselinePosition = 15,
                 !.SheetFormat = 8, !.NumOfColumns = 4, !.NumOfRows = 2,
                 !.SheetWidth = 64, !.SheetHeight = 32,
                 !.SheetDataOffset = FFNT_HEADER_SIZE + FINF_HEADER_SIZE + TGLP_HEADER_SIZE,
                 !.SheetData = f.payload]
      tglpAt == FFNT_HEADER_SIZE + FINF_HEADER_SIZE
      tglpRaw == TGLP_Encode(tglp)
      cwdhAt == tglpAt + Len(tglpRaw)
      cwdhRaw == EncodeCWDHs(f.cwdhs, cwdhAt + 8)
      cmapAt == cwdhAt + Len(cwdhRaw)
      cmapRaw == EncodeCMAPs(f.cmaps, cmapAt + 8)
      krngAt == cmapAt + Len(cmapRaw)
      krngData == KRNG_Data(f.kern.table, f.kern.order, krngAt + 8)
      krngRaw == IF f.kern.present
                   THEN KRNG_MAGIC_HEADER \o PutU32(KRNG_HEADER_SIZE + Len(krngData))
                          \o krngData
                   ELSE << >>
      finf == [MagicHeader |-> FINF_MAGIC_HEADER, SectionSize |-> FINF_HEADER_SIZE,
               FontType |-> 1, Height |-> 20, Width |-> 18, Ascent |-> 16,
               LineFeed |-> 22, AlterCharIndex |-> 0, DefaultLeftWidth |-> -1,
               DefaultGlyphWidth |-> 10, DefaultCharWidth |-> 12, Encoding |-> 1,
               TGLPOffset |-> tglpAt + 8, CWDHOffset |-> cwdhAt + 8,
               CMAPOffset |-> cmapAt + 8]
      size == krngAt + Len(krngRaw)
      total == IF f.stale THEN 7 ELSE size
      ffnt == [MagicHeader |-> f.magic, Endianness |-> 65279,
               SectionSize |-> FFNT_HEADER_SIZE, Version |-> 50331648,
               TotalFileSize |-> total, BlockReadNum |-> 65536]
      whole == FFNT_Encode(ffnt, total)
                 \o FINF_Encode(finf, tglpAt + 8, cwdhAt + 8, cmapAt + 8)
                 \o tglpRaw \o cwdhRaw \o cmapRaw \o krngRaw
  IN  CASE f.keep = "all" -> whole
        [] f.keep = "cut" -> SubSeq(whole, 1, Len(whole) - 1)
        [] OTHER -> SubSeq(whole, 1, HeadLen)

(***************************************************************************)
(* The document-level runs: upscaleBffnt of package bffnt_headers reads a  *)
(* file, decodes it, may upscale it and encodes it; main of package main   *)
(* loads a file and encodes it.                                            *)
(***************************************************************************)
Init ==
  /\ KIdle
  /\ variant \in {"lib", "main"}
  /\ file \in FileSpecs
  /\ bffntRaw = BuildFile(file)
  /\ slack \in 0..MaxSlack
  /\ bffnt = FreshBFFNT /\ bffntBefore = FreshBFFNT
  /\ scale = 0 /\ upStatus = "none"
  /\ encDone = << >> /\ parts = NoParts /\ out = NoBytes
  /\ pc = "loaded"

\* bffnt.Decode(bffntRaw)
Decode ==
  /\ pc = "loaded"
  /\ variant = "lib"
  /\ LET r == BFFNT_DecodeSections(bffnt, bffntRaw, Len(bffntRaw) + slack)
     IN  IF r.status = "ok"
           THEN /\ \E glyphs \in GlyphIndexes(r.b.CMAPs) :
                     bffnt' = [r.b EXCEPT !.CWDHIndexMap = IndexMapOf(glyphs)]
                /\ pc' = "decoded"
           ELSE /\ bffnt' = r.b
                /\ pc' = "panic"
  /\ UNCHANGED <<variant, file, bffntRaw, slack, bffntBefore, scale, upStatus, encDone, parts, out>>
  /\ UNCHANGED kvars

\* bffnt.Load(testBffntFile) of package main
Load ==
  /\ pc = "loaded"
  /\ variant = "main"
  /\ LET r == BFFNT_DecodeSections(bffnt, bffntRaw, Len(bffntRaw) + slack)
     IN  /\ bffnt' = r.b
         /\ pc' = IF r.status = "ok" THEN "decoded" ELSE "panic"
  /\ UNCHANGED <<variant, file, bffntRaw, slack, bffntBefore, scale, upStatus, encDone, parts, out>>
  /\ UNCHANGED kvars

\* bffnt.Upscale(scale)
Upscale ==
  /\ pc = "decoded"
  /\ variant = "lib"
  /\ \E sc \in 1..MaxScale, mode \in OverflowModes, conv \in Int16Conversions :
       LET r == BFFNT_Upscale(bffnt, sc, mode, conv)
       IN  /\ scale' = sc
           /\ bffntBefore' = bffnt
           /\ bffnt' = r.b
           /\ upStatus' = r.status
           /\ pc' = IF r.status = "panic" THEN "panic" ELSE "scaled"
  /\ UNCHANGED <<variant, file, bffntRaw, slack, encDone, parts, out>>
  /\ UNCHANGED kvars

\* the sections of order from position k on, each encoded with the bytes of
\* the sections before it at hand
RECURSIVE EncodeFrom(_, _, _, _, _)
EncodeFrom(v, doc, done, iter, k) ==
  IF k > Len(EncodeOrder(v)) THEN done
  ELSE LET sec == EncodeOrder(v)[k]
       IN  EncodeFrom(v, doc, [done EXCEPT ![sec] = EncodeSection(v, sec, doc, done, iter)],
                      iter, k + 1)

\* the offset at which the document-level Encode starts the kerning section
KrngStartOffset(v, done) ==
  IF v = "lib" THEN LibKrngOffset(done) ELSE MainCmapOffset(done) + Len(done.CMAP)

\* bffnt.Encode()
Encode ==
  /\ pc \in {"decoded", "scaled"}
  /\ \E iter \in Perms(DOMAIN bffnt.KRNG.KerningTable) :
       LET done == EncodeFrom(variant, bffnt, NoParts, iter, 1)
       IN  /\ parts' = done
           /\ out' = Concatenate(done)
           /\ bffnt' = [bffnt EXCEPT !.KRNG.SectionSize =
                      KRNG_EncodeSectionSize(bffnt.KRNG, iter, KrngStartOffset(variant, done))]
  /\ encDone' = EncodeOrder(variant)
  /\ pc' = "done"
  /\ UNCHANGED <<variant, file, bffntRaw, slack, bffntBefore, scale, upStatus>>
  /\ UNCHANGED kvars

Next == Decode \/ Load \/ Upscale \/ Encode

Spec == Init /\ [][Next]_vars

(***************************************************************************)
(* Properties of the document-level runs, checked under Spec.              *)
(***************************************************************************)
LibDone == pc = "done" /\ variant = "lib"

\* where the sections begin in the buffer Encode returned
TglpStart == Len(parts.FFNT) + Len(parts.FINF)

CwdhStart == TglpStart + Len(parts.TGLP)

CmapStart == CwdhStart + Len(parts.CWDH)

\* C1: the total-file-size field in the header of the buffer BFFNT.Encode
\* returns equals the length of that buffer, which is the 20-byte header plus
\* the encoded lengths of font info, page, width chain, map chain and kerning,
\* whatever total size the document held before the call
C1_TotalSizeIsLength ==
  LibDone =>
    /\ GetU32(out, 12) = Len(out)
    /\ Len(out) = FFNT_HEADER_SIZE + Len(parts.FINF) + Len(parts.TGLP) + Len(parts.CWDH)
                    + Len(parts.CMAP) + Len(parts.KRNG)

\* an Encode of a document whose stored total size is not the length of the
\* buffer, with and without a kerning section
C1_Witness ==
  /\ LibDone
  /\ bffnt.FFNT.TotalFileSize # Len(out)
  /\ GetU32(out, 12) = Len(out)
  /\ Len(parts.KRNG) > 0
  /\ scale > 1

\* C2: in the buffer BFFNT.Encode returns, the three offsets FINF is encoded
\* with equal the byte index at which TGLP, the first CWDH and the first CMAP
\* begin, plus 8, and each of those sections begins with its tag
C2_FinfOffsets ==
  LibDone =>
    /\ GetU32(out, FFNT_HEADER_SIZE + 20) = TglpStart + 8
    /\ GetU32(out, FFNT_HEADER_SIZE + 24) = CwdhStart + 8
    /\ GetU32(out, FFNT_HEADER_SIZE + 28) = CmapStart + 8
    /\ Sub(out, TglpStart, 4) = TGLP_MAGIC_HEADER
    /\ Sub(out, CwdhStart, 4) = CWDH_MAGIC_HEADER
    /\ Sub(out, CmapStart, 4) = CMAP_MAGIC_HEADER

\* an Encode of a document with two width blocks, two map blocks and a padded
\* page, whose offsets differ from the ones of the smallest file
C2_Witness ==
  /\ LibDone
  /\ Len(bffnt.CWDHs) = 2
  /\ Len(bffnt.CMAPs) = 2
  /\ Len(bffnt.TGLP.SheetData) % 4 # 0
  /\ GetU32(out, FFNT_HEADER_SIZE + 28) = CmapStart + 8
  /\ CmapStart > CwdhStart + CWDH_HEADER_SIZE + 4

\* the position of a section in the order of the encode steps
EncodePos(sec) == CHOOSE i \in 1..Len(encDone) : encDone[i] = sec

\* C3: in every document-level Encode the font info is encoded after the
\* page, the width chain and the map chain, and the container header is
\* encoded after every other section, the kerning table included
C3_EncodeOrder ==
  pc = "done" =>
    /\ \A sec \in {"TGLP", "CWDH", "CMAP"} : EncodePos(sec) < EncodePos("FINF")
    /\ \A sec \in {"FINF", "TGLP", "CWDH", "CMAP", "KRNG"} : EncodePos(sec) < EncodePos("FFNT")

\* the file is complete, its header holds its length and starts with a tag
WellFormed(f) == f.keep = "all" /\ ~f.stale /\ f.magic \in FFNT_MAGIC_HEADERS

\* the file with the first characters of its kerning section in ascending order
Normalized(f) == BuildFile([f EXCEPT !.kern.order = SortInts(f.kern.order)])

\* C5: Decode of a well-formed buffer followed at once by Encode returns the
\* bytes of the buffer, the kerning first characters in ascending order
C5_ByteIdempotence ==
  (LibDone /\ scale = 0 /\ WellFormed(file)) => out = Normalized(file)

\* some glyph of the document has a width that passes 255 under the factor
GlyphOverflow(doc, sc) == \E i \in 1..Len(doc.CWDHs) : BlockOverflows(doc.CWDHs[i], sc)

\* C7: an Upscale under whose factor some scaled glyph width would pass 255
\* fails with RangeError and leaves the whole document as it was
C7_AtomicRangeError ==
  (pc \in {"scaled", "panic"} /\ upStatus # "none" /\ GlyphOverflow(bffntBefore, scale)) =>
    (upStatus = "RangeError" /\ bffnt = bffntBefore)

\* C11: after KRNG.Upscale(factor), called by BFFNT.Upscale, every kerning
\* value equals ceil(oldValue * factor), for every stored value and factor;
\* no value wraps or changes sign through overflow of the 16-bit field
C11_CeilNoWrap ==
  (pc = "scaled" /\ upStatus = "returned") =>
    /\ DOMAIN bffnt.KRNG.KerningTable = DOMAIN bffntBefore.KRNG.KerningTable
    /\ \A c \in DOMAIN bffntBefore.KRNG.KerningTable :
         /\ Len(bffnt.KRNG.KerningTable[c]) = Len(bffntBefore.KRNG.KerningTable[c])
         /\ \A i \in 1..Len(bffntBefore.KRNG.KerningTable[c]) :
              bffnt.KRNG.KerningTable[c][i].KerningValue =
                bffntBefore.KRNG.KerningTable[c][i].KerningValue * scale

\* the places <<block, position>> of the map chain whose glyph index is not
\* the sentinel 0xFFFF, and the pair at a place
ChainPlaces(cmaps) ==
  {e \in UNION {{<<k, j>> : j \in 1..Len(cmaps[k].CharAscii)} : k \in 1..Len(cmaps)} :
     cmaps[e[1]].CharIndex[e[2]] # 65535}

PairAt(cmaps, e) ==
  [CharAscii |-> cmaps[e[1]].CharAscii[e[2]], CharIndex |-> cmaps[e[1]].CharIndex[e[2]]]

\* C12: BFFNT.GlyphIndexes returns a sequence without any pair whose glyph
\* index is 0xFFFF, that is a permutation of all entries of the chain with a
\* glyph index other than 0xFFFF, in non-decreasing glyph-index order
C12_GlyphIndexesSorted ==
  (pc = "decoded" /\ variant = "lib") =>
    \A glyphs \in GlyphIndexes(bffnt.CMAPs) :
      /\ \A i \in 1..Len(glyphs) : glyphs[i].CharIndex # 65535
      /\ \A i \in 1..(Len(glyphs) - 1) : glyphs[i].CharIndex <= glyphs[i + 1].CharIndex
      /\ Len(glyphs) = Cardinality(ChainPlaces(bffnt.CMAPs))
      /\ \A e \in ChainPlaces(bffnt.CMAPs) :
           Cardinality({i \in 1..Len(glyphs) : glyphs[i] = PairAt(bffnt.CMAPs, e)})
             = Cardinality({x \in ChainPlaces(bffnt.CMAPs) :
                              PairAt(bffnt.CMAPs, x) = PairAt(bffnt.CMAPs, e)})

\* a decoded chain that holds a sentinel entry and whose other entries are not
\* in glyph-index order
C12_Witness ==
  /\ pc = "decoded" /\ variant = "lib"
  /\ \E k \in 1..Len(bffnt.CMAPs) : 65535 \in Range(bffnt.CMAPs[k].CharIndex)
  /\ \E e, x \in ChainPlaces(bffnt.CMAPs) :
       /\ e[1] = x[1] /\ e[2] < x[2]
       /\ PairAt(bffnt.CMAPs, e).CharIndex > PairAt(bffnt.CMAPs, x).CharIndex
  /\ \E glyphs \in GlyphIndexes(bffnt.CMAPs) : Len(glyphs) = 2

\* how the FFNT.Decode call of BFFNT.Decode ended on the file that was read
FFNT_DecodeStatus == FFNT_Decode(FreshFFNT, bffntRaw, Len(bffntRaw) + slack).status

LibDecodeCalled == pc # "loaded" /\ variant = "lib"

\* C13: FFNT.Decode of a buffer shorter than the 20-byte header fails with a
\* TruncatedInput error returned to the caller, and no header field is
\* populated from the short buffer
C13_TruncatedInput ==
  (LibDecodeCalled /\ Len(bffntRaw) < FFNT_HEADER_SIZE) =>
    (FFNT_DecodeStatus = "TruncatedInput" /\ bffnt.FFNT = FreshFFNT)

\* C14: FFNT.Decode of a buffer of at least 20 bytes whose first four bytes
\* are not an accepted tag fails with FormatError and produces no header
C14_BadMagicFormatError ==
  (LibDecodeCalled /\ Len(bffntRaw) >= FFNT_HEADER_SIZE
     /\ Sub(bffntRaw, 0, 4) \notin FFNT_MAGIC_HEADERS) =>
    (FFNT_DecodeStatus = "FormatError" /\ bffnt.FFNT = FreshFFNT)

\* the kerning section BFFNT.Decode found in the file: where its data starts,
\* and the stored offset and the pair count KRNG.Decode read for entry i
KrngDataAt == IndexOf(bffntRaw, KRNG_MAGIC_HEADER) + KRNG_HEADER_SIZE

StoredOffsetRead(i) == GetU16(bffntRaw, KrngDataAt + 2 + 4 * i + 2)

PairCountRead(i) == GetU16(bffntRaw, KrngDataAt + RealSecondCharOffset(StoredOffsetRead(i)))

DecodeReturned == pc \in {"decoded", "scaled", "done"}

\* C15: for every stored 16-bit offset s and pair count n, KRNG.Decode reads
\* the pair count at data byte 2*s and the pairs from [2*s + 2, 2*s + 2 + 4*n),
\* positions computed without wraparound modulo 2^16
C15_NoWraparound ==
  (DecodeReturned /\ IndexOf(bffntRaw, KRNG_MAGIC_HEADER) # -1) =>
    \A i \in 0..(GetU16(bffntRaw, KrngDataAt) - 1) :
      LET s == StoredOffsetRead(i)
          n == PairCountRead(i)
          real == RealSecondCharOffset(s)
      IN  /\ real = 2 * s
          /\ PairDataStart(real) = 2 * s + 2
          /\ PairDataEnd(real, n) = 2 * s + 2 + 4 * n

\* C16: after BFFNT.Decode, for every codepoint c that the map chain maps to
\* a glyph index g other than 0xFFFF, CWDHIndexMap[c] = g, also when the
\* glyph indexes are not the dense range 0..n-1 or two codepoints share one
C16_IndexMapIsGlyphIndex ==
  (pc = "decoded" /\ variant = "lib") =>
    \A e \in ChainPlaces(bffnt.CMAPs) :
      /\ PairAt(bffnt.CMAPs, e).CharAscii \in DOMAIN bffnt.CWDHIndexMap
      /\ bffnt.CWDHIndexMap[PairAt(bffnt.CMAPs, e).CharAscii] = PairAt(bffnt.CMAPs, e).CharIndex

====
